---- MODULE Spec2Model ----
(***************************************************************************)
(* Model of the Fetch-Resilient client: ResilientHttpClient (retry loop,   *)
(* throttle, debounce, cache short-circuit) and the CacheManager store.    *)
(* Times are in milliseconds, Date.now() is the variable now; the clock    *)
(* advances in steps whose length each specification chooses.              *)
(***************************************************************************)
EXTENDS Integers, Sequences, FiniteSets, TLC

\* ------------------------------------------------------------------ bounds
MaxCalls == 3         \* fetch calls issued in one behaviour
Epoch == 100000       \* Date.now() at the first call (larger than any throttleTime)
MaxRetriesBound == 3  \* largest maxRetries drawn for the retry executor

CallIds == 1..MaxCalls

Urls == {"u1", "u2"}
Options == {"GET"}
Undefined == -1

\* ------------------------------------------------------------- map helpers
EmptyMap == [k \in {} |-> 0]
Has(m, k) == k \in DOMAIN m
Put(m, k, v) == [x \in (DOMAIN m) \cup {k} |-> IF x = k THEN v ELSE m[x]]
Delete(m, k) == [x \in (DOMAIN m) \ {k} |-> m[x]]

Min(a, b) == IF a < b THEN a ELSE b

RECURSIVE Pow(_, _)
Pow(b, e) == IF e = 0 THEN 1 ELSE b * Pow(b, e - 1)

\* ----------------------------------------------------------- configuration
\* The constructor's defaults.
DefaultConfig ==
  [ maxRetries |-> 3, initialBackoff |-> 500, maxBackoff |-> 10000, backoffFactor |-> 2,
    retryOnErrors |-> {404, 500},
    isTextResponse |-> FALSE, isJsonResponse |-> FALSE, responseType |-> "auto",
    withCache |-> FALSE, cacheTTL |-> Undefined, cacheKey |-> "",
    throttleTime |-> 0, debounceTime |-> 0, url |-> "",
    onRetry |-> FALSE, onHttpResponse |-> FALSE, onSuccess |-> FALSE, onError |-> FALSE ]

\* Mutant of the spread: the fields of base win over those of over.
MergeBaseWins(base, over) == base

\* { ...base, ...over }: every field of over replaces the field of base.
Merge(base, over) ==
  [f \in DOMAIN base |-> IF f \in DOMAIN over THEN over[f] ELSE base[f]]

\* --------------------------------------------------------------- transport
\* What one transport call can produce: a thrown network error, or a response
\* with a status, a content type (json: application/json) and a body that
\* parses as JSON or not (valid): a JSON body, a broken JSON body, a text body.
\* empty: the body is the empty string (which does not parse as JSON).
Thrown == [thrown |-> TRUE, status |-> 0, json |-> FALSE, valid |-> FALSE, empty |-> FALSE]
Response(status, json, valid) ==
  [thrown |-> FALSE, status |-> status, json |-> json, valid |-> valid, empty |-> FALSE]
EmptyBody(status, json) ==
  [thrown |-> FALSE, status |-> status, json |-> json, valid |-> FALSE, empty |-> TRUE]
Responses ==
  {Thrown} \cup
  { Response(st, b[1], b[2]) :
      st \in {200, 404, 500}, b \in {<<TRUE, TRUE>>, <<TRUE, FALSE>>, <<FALSE, FALSE>>} }

Ok(resp) == resp.status >= 200 /\ resp.status <= 299

NoError == [kind |-> "none", status |-> 0, serial |-> 0]
\* null / undefined; falsy marks a value that a JavaScript condition takes as
\* false (null, the empty string).
NoData == [body |-> 0, format |-> "none", serial |-> 0, replaced |-> FALSE, falsy |-> TRUE]
\* if (data): neither null nor another falsy value.
Truthy(data) == data # NoData /\ ~data.falsy

TransportFailure(serial) == [kind |-> "TransportFailure", status |-> 0, serial |-> serial]
HttpError(status, serial) == [kind |-> "HTTPError", status |-> status, serial |-> serial]
InvalidFormat(serial) == [kind |-> "InvalidResponseFormat", status |-> 0, serial |-> serial]
OnSuccessError(serial) == [kind |-> "OnSuccessThrew", status |-> 0, serial |-> serial]
ReplacementError(serial) == [kind |-> "Replacement", status |-> 0, serial |-> serial]
MaxRetriesError == [kind |-> "MaxRetriesExceeded", status |-> 0, serial |-> 0]

\* ------------------------------------------------------------------- state
VARIABLES
  now,                \* Date.now()
  config,             \* this.config of the client instance
  calls,              \* one record per fetch call: position, snapshot, counters
  lastExecutionTime,  \* Map CallKey -> time
  inFlightRequests,   \* Map CallKey -> id of the call whose executeFetch promise it holds
  debounceTimers,     \* Map CallKey -> timer id (the id of the call that set it)
  timers,             \* debounce timers pending in the host's timer queue
  transportCalls,     \* number of transport calls made so far (their serial numbers)
  indexedDB,          \* whether the environment has an IndexedDB
  cache,              \* the 'cache' object store: key -> [value, expiresAt]
  unwritten,          \* keys of the put requests that have not succeeded yet
  instance,           \* whether ResilientHttpClient.instance has been created
  lastCall,           \* history: the direct CacheManager call just made, its outcome
  setLog,             \* history: key -> the last direct CacheManager.set on it
  cacheOps,           \* history: number of direct CacheManager calls made
  requested           \* history: the config last passed to getInstance by a caller

\* The history variables and the singleton flag, which the request path leaves
\* unchanged.
harness == <<instance, lastCall, setLog, cacheOps, requested>>

vars == <<now, config, calls, lastExecutionTime, inFlightRequests, debounceTimers,
          timers, transportCalls, indexedDB, cache, unwritten, harness>>

IdleCall ==
  [ pc |-> "idle", path |-> "none", url |-> "", options |-> "", cfg |-> DefaultConfig,
    issuedAt |-> 0, overlap |-> FALSE, currentTime |-> 0, wake |-> 0, waited |-> FALSE, owner |-> 0,
    startedAt |-> 0, attempt |-> 0, sent |-> 0, serial |-> 0, sentAt |-> 0, reqUrl |-> "",
    reqOptions |-> "",
    waits |-> <<>>, transportFailures |-> 0, onRetryCalls |-> 0, retryAttempts |-> <<>>,
    onHttpResponseCalls |-> 0,
    onSuccessCalls |-> 0, onErrorCalls |-> 0, onErrorReplaced |-> FALSE,
    lastFailure |-> NoError,
    result |-> NoData, error |-> NoError ]

Settled(rec) == rec.pc \in {"resolved", "rejected"}

\* JSON.stringify({ url, options })
CallKey(url, options) == <<url, options>>

\* ------------------------------------------------------------ retry executor
RetryUrl == "uR"
RetryOptions == "oR"
\* What onRetry can return: url/options replacements ("" is absent; both absent
\* behaves like returning nothing).
RetryResults == [url : {"", RetryUrl}, options : {"", RetryOptions}]
NoRetryResult == [url |-> "", options |-> ""]
\* What onSuccess can do: return nothing, return a replacement value, or throw.
SuccessResults == {"void", "replace", "throw"}
\* What onError can return: nothing or a replacement error.
ErrorResults == {"void", "replace"}

\* Math.min(initialBackoff * Math.pow(backoffFactor, attempt), maxBackoff)
BackoffTime(cfg, attempt) ==
  Min(cfg.initialBackoff * Pow(cfg.backoffFactor, attempt), cfg.maxBackoff)

\* Mutant of the loop test: the body runs while attempt <= maxRetries, so once
\* with maxRetries = 0.
BeginAttemptAtLeastOnce(rec, retryResult, serialNo, t) ==
  IF rec.attempt <= rec.cfg.maxRetries
    THEN LET hook == rec.cfg.onRetry /\ rec.attempt > 0
         IN [rec EXCEPT
               !.pc = "transport",
               !.sent = @ + 1,
               !.serial = serialNo,
               !.sentAt = t,
               !.onRetryCalls = IF hook THEN @ + 1 ELSE @,
               !.retryAttempts = IF hook THEN Append(@, rec.attempt) ELSE @,
               !.reqUrl = IF hook /\ retryResult.url # "" THEN retryResult.url ELSE rec.url,
               !.reqOptions = IF hook /\ retryResult.options # ""
                                THEN retryResult.options ELSE rec.options]
    ELSE [rec EXCEPT !.pc = "rejected", !.error = MaxRetriesError]

\* Mutant of the top of the loop: currentUrl and currentOptions are not reset, a
\* retry starts from the address and options of the attempt before.
BeginAttemptKeepsReplacement(rec, retryResult, serialNo, t) ==
  IF rec.attempt < rec.cfg.maxRetries
    THEN LET hook == rec.cfg.onRetry /\ rec.attempt > 0
             currentUrl == IF rec.sent > 0 THEN rec.reqUrl ELSE rec.url
             currentOptions == IF rec.sent > 0 THEN rec.reqOptions ELSE rec.options
         IN [rec EXCEPT
               !.pc = "transport",
               !.sent = @ + 1,
               !.serial = serialNo,
               !.sentAt = t,
               !.onRetryCalls = IF hook THEN @ + 1 ELSE @,
               !.retryAttempts = IF hook THEN Append(@, rec.attempt) ELSE @,
               !.reqUrl = IF hook /\ retryResult.url # "" THEN retryResult.url ELSE currentUrl,
               !.reqOptions = IF hook /\ retryResult.options # ""
                                THEN retryResult.options ELSE currentOptions]
    ELSE [rec EXCEPT !.pc = "rejected", !.error = MaxRetriesError]

\* Top of the while loop up to the transport call: the loop test, onRetry on a
\* retry, then fetch(currentUrl, currentOptions) with serial number serialNo.
\* With attempt >= maxRetries the loop is left and "Max retries exceeded" thrown.
BeginAttempt(rec, retryResult, serialNo, t) ==
  IF rec.attempt < rec.cfg.maxRetries
    THEN LET hook == rec.cfg.onRetry /\ rec.attempt > 0
         IN [rec EXCEPT
               !.pc = "transport",
               !.sent = @ + 1,
               !.serial = serialNo,
               !.sentAt = t,
               !.onRetryCalls = IF hook THEN @ + 1 ELSE @,
               !.retryAttempts = IF hook THEN Append(@, rec.attempt) ELSE @,
               !.reqUrl = IF hook /\ retryResult.url # "" THEN retryResult.url ELSE rec.url,
               !.reqOptions = IF hook /\ retryResult.options # ""
                                THEN retryResult.options ELSE rec.options]
    ELSE [rec EXCEPT !.pc = "rejected", !.error = MaxRetriesError]

\* The decoding chosen by processResponse: TRUE for response.json(), FALSE for
\* response.text().
UsesJson(cfg, resp) ==
  IF cfg.isTextResponse THEN FALSE
  ELSE IF cfg.isJsonResponse THEN TRUE
  ELSE CASE cfg.responseType = "text" -> FALSE
         [] cfg.responseType = "json" -> TRUE
         [] OTHER -> resp.json

\* response.json() throws on a body that is not JSON; response.text() does not.
DecodeFails(cfg, resp) == UsesJson(cfg, resp) /\ ~resp.valid

Decoded(cfg, resp, serialNo) ==
  [body |-> resp.status, format |-> IF UsesJson(cfg, resp) THEN "json" ELSE "text",
   serial |-> serialNo, replaced |-> FALSE,
   falsy |-> resp.empty /\ ~UsesJson(cfg, resp)]

\* processResponse up to the cache write: decode, then onSuccess.
ProcessResponse(cfg, resp, successResult, serialNo) ==
  IF DecodeFails(cfg, resp)
    THEN [ok |-> FALSE, data |-> NoData, error |-> InvalidFormat(serialNo), hooked |-> FALSE]
  ELSE IF cfg.onSuccess /\ successResult = "throw"
    THEN [ok |-> FALSE, data |-> NoData, error |-> OnSuccessError(serialNo), hooked |-> TRUE]
  ELSE IF cfg.onSuccess /\ successResult = "replace"
    THEN [ok |-> TRUE, data |-> [Decoded(cfg, resp, serialNo) EXCEPT !.replaced = TRUE, !.falsy = FALSE],
          error |-> NoError, hooked |-> TRUE]
  ELSE [ok |-> TRUE, data |-> Decoded(cfg, resp, serialNo), error |-> NoError,
        hooked |-> cfg.onSuccess]

\* Mutant of the try block: every response that is not ok is an error.
AttemptOutcomeRetriesNonOk(cfg, resp, successResult, serialNo) ==
  IF resp.thrown
    THEN [ok |-> FALSE, data |-> NoData, error |-> TransportFailure(serialNo), hooked |-> FALSE]
  ELSE IF ~Ok(resp)
    THEN [ok |-> FALSE, data |-> NoData, error |-> HttpError(resp.status, serialNo),
          hooked |-> FALSE]
  ELSE ProcessResponse(cfg, resp, successResult, serialNo)

\* The body of the try block after the transport call has completed.
AttemptOutcome(cfg, resp, successResult, serialNo) ==
  IF resp.thrown
    THEN [ok |-> FALSE, data |-> NoData, error |-> TransportFailure(serialNo), hooked |-> FALSE]
  ELSE IF ~Ok(resp) /\ resp.status \in cfg.retryOnErrors
    THEN [ok |-> FALSE, data |-> NoData, error |-> HttpError(resp.status, serialNo),
          hooked |-> FALSE]
  ELSE ProcessResponse(cfg, resp, successResult, serialNo)

\* Mutant of the catch block: gives up only when attempt > maxRetries.
OnFailureGivesUpLate(rec, err, errorResult, t) ==
  LET attempt == rec.attempt + 1
      r1 == [rec EXCEPT !.attempt = attempt, !.lastFailure = err,
                        !.onErrorCalls = IF rec.cfg.onError THEN @ + 1 ELSE @,
                        !.onErrorReplaced = rec.cfg.onError /\ errorResult = "replace"]
  IN IF rec.cfg.onError /\ errorResult = "replace"
       THEN [r1 EXCEPT !.pc = "rejected", !.error = ReplacementError(err.serial)]
     ELSE IF attempt > rec.cfg.maxRetries
       THEN [r1 EXCEPT !.pc = "rejected", !.error = err]
     ELSE [r1 EXCEPT !.pc = "backoff",
                     !.wake = t + BackoffTime(rec.cfg, attempt),
                     !.waits = Append(@, BackoffTime(rec.cfg, attempt))]

\* Mutant of the catch block: onError's replacement is thrown only once the
\* attempts are exhausted.
OnFailureKeepsRetrying(rec, err, errorResult, t) ==
  LET attempt == rec.attempt + 1
      r1 == [rec EXCEPT !.attempt = attempt, !.lastFailure = err,
                        !.onErrorCalls = IF rec.cfg.onError THEN @ + 1 ELSE @,
                        !.onErrorReplaced = rec.cfg.onError /\ errorResult = "replace"]
  IN IF attempt >= rec.cfg.maxRetries
       THEN [r1 EXCEPT !.pc = "rejected",
                       !.error = IF rec.cfg.onError /\ errorResult = "replace"
                                   THEN ReplacementError(err.serial) ELSE err]
     ELSE [r1 EXCEPT !.pc = "backoff",
                     !.wake = t + BackoffTime(rec.cfg, attempt),
                     !.waits = Append(@, BackoffTime(rec.cfg, attempt))]

\* The catch block: count the attempt, onError, give up or wait the backoff.
OnFailure(rec, err, errorResult, t) ==
  LET attempt == rec.attempt + 1
      r1 == [rec EXCEPT !.attempt = attempt, !.lastFailure = err,
                        !.onErrorCalls = IF rec.cfg.onError THEN @ + 1 ELSE @,
                        !.onErrorReplaced = rec.cfg.onError /\ errorResult = "replace"]
  IN IF rec.cfg.onError /\ errorResult = "replace"
       THEN [r1 EXCEPT !.pc = "rejected", !.error = ReplacementError(err.serial)]
     ELSE IF attempt >= rec.cfg.maxRetries
       THEN [r1 EXCEPT !.pc = "rejected", !.error = err]
     ELSE [r1 EXCEPT !.pc = "backoff",
                     !.wake = t + BackoffTime(rec.cfg, attempt),
                     !.waits = Append(@, BackoffTime(rec.cfg, attempt))]

\* generateCacheKey(url, cacheKey)
GenerateCacheKey(url, cacheKey) == IF cacheKey # "" THEN cacheKey ELSE url

EXPIRATION_TIME == 900000

\* CacheManager.set returns on `await store.put(...)`: put returns a request, not
\* a promise, so set does not wait for the request's success event. The store
\* runs its transactions in the order they were created: cache is the store as
\* the next transaction finds it, pending the keys whose put has been requested
\* and has not succeeded yet.
PutRequested(pending, present, key) == IF present THEN pending \cup {key} ELSE pending

\* Mutant of CacheManager.set: the entry is written whether or not IndexedDB is
\* present.
CacheSetWithoutStore(store, present, key, value, expirationTime, t) ==
  Put(store, key,
      [value |-> value,
       expiresAt |-> t + (IF expirationTime = Undefined THEN EXPIRATION_TIME
                          ELSE expirationTime)])

\* CacheManager.set: a no-op without IndexedDB, else put { key, value, expiresAt }.
CacheSet(store, present, key, value, expirationTime, t) ==
  IF ~present THEN store
  ELSE Put(store, key,
           [value |-> value,
            expiresAt |-> t + (IF expirationTime = Undefined THEN EXPIRATION_TIME
                               ELSE expirationTime)])

\* History of the set calls: the value, the time and the lifetime of the last
\* set on each key, whether or not a store is present, and the invalidation
\* that was called on the key since, if any.
LogSet(log, key, value, expirationTime, t) ==
  Put(log, key,
      [value |-> value, at |-> t,
       ttl |-> IF expirationTime = Undefined THEN EXPIRATION_TIME ELSE expirationTime,
       removedBy |-> "none"])

\* Mutant of CacheManager.get: an entry with expiresAt = Date.now() is served.
CacheGetKeepsExpired(store, present, key, t) ==
  IF present /\ Has(store, key) /\ store[key].expiresAt >= t THEN store[key].value
  ELSE NoData

\* CacheManager.get: null (NoData) without IndexedDB, on a missing entry and on
\* an entry with expiresAt <= Date.now().
CacheGet(store, present, key, t) ==
  IF present /\ Has(store, key) /\ store[key].expiresAt > t THEN store[key].value
  ELSE NoData

\* String.prototype.includes: value occurs in key at some position (the empty
\* value at every position).
Includes(key, value) ==
  \E i \in 1..(Len(key) - Len(value) + 1) : SubSeq(key, i, i + Len(value) - 1) = value

\* Mutant of cleanupExpiredData: an entry with expiresAt = Date.now() is kept.
CleanupExpiredKeepsBoundary(store, present, t) ==
  IF ~present THEN store
  ELSE [k \in {x \in DOMAIN store : ~(store[x].expiresAt < t)} |-> store[k]]

\* CacheManager.cleanupExpiredData: the cursor deletes the entries with
\* expiresAt <= Date.now().
CleanupExpired(store, present, t) ==
  IF ~present THEN store
  ELSE [k \in {x \in DOMAIN store : ~(store[x].expiresAt <= t)} |-> store[k]]

\* Mutant of invalidateByKeyContaining: only the keys that start with value are
\* deleted.
InvalidateStartingWith(store, present, value) ==
  IF ~present THEN store
  ELSE [k \in {x \in DOMAIN store :
                ~(Len(value) <= Len(x) /\ SubSeq(x, 1, Len(value)) = value)} |-> store[k]]

\* CacheManager.invalidateByKeyContaining: the cursor deletes the entries whose
\* key includes value.
InvalidateContaining(store, present, value) ==
  IF ~present THEN store
  ELSE [k \in {x \in DOMAIN store : ~Includes(x, value)} |-> store[k]]

\* Mutant of invalidateAllCache: only the one-character keys are deleted.
InvalidateShortKeys(store, present) ==
  IF ~present THEN store ELSE [k \in {x \in DOMAIN store : Len(x) > 1} |-> store[k]]

\* CacheManager.invalidateAllCache: store.clear().
InvalidateAll(store, present) == IF ~present THEN store ELSE EmptyMap

\* ---------------------------------------------------------------- scheduler
Sends(rec) == IF rec.pc = "transport" THEN 1 ELSE 0

\* executeFetch called from fetch: the loop starts in the same task.
ImmediateFetch(c, rec) ==
  LET r == BeginAttempt([rec EXCEPT !.path = "immediate", !.startedAt = now],
                        NoRetryResult, transportCalls + 1, now)
  IN /\ calls' = [calls EXCEPT ![c] = r]
     /\ transportCalls' = transportCalls + Sends(r)
     /\ UNCHANGED <<lastExecutionTime, inFlightRequests, debounceTimers, timers>>

\* throttledFetch from "Create a new request and store it" on: the request is
\* started and stored, lastExecutionTime is set to the currentTime read on
\* entry; a request that is already settled leaves through the finally block.
ThrottleExecute(c, rec) ==
  LET key == CallKey(rec.url, rec.options)
      r == BeginAttempt([rec EXCEPT !.startedAt = now], NoRetryResult, transportCalls + 1, now)
  IN /\ calls' = [calls EXCEPT ![c] = r]
     /\ transportCalls' = transportCalls + Sends(r)
     /\ inFlightRequests' = IF Settled(r) THEN Delete(inFlightRequests, key)
                            ELSE Put(inFlightRequests, key, c)
     /\ lastExecutionTime' = Put(lastExecutionTime, key, rec.currentTime)
     /\ UNCHANGED <<debounceTimers, timers>>

\* Mutant of throttledFetch: a caller inside the throttle window always waits,
\* the in-flight request is not looked up.
ThrottledFetchNoCoalescing(c, rec) ==
  LET key == CallKey(rec.url, rec.options)
      currentTime == now
      lastExecution == IF Has(lastExecutionTime, key) THEN lastExecutionTime[key] ELSE 0
      timeSinceLastExecution == currentTime - lastExecution
      r == [rec EXCEPT !.path = "throttle", !.currentTime = currentTime]
  IN IF timeSinceLastExecution < rec.cfg.throttleTime
       THEN /\ calls' = [calls EXCEPT ![c] =
                 [r EXCEPT !.pc = "throttleWait", !.waited = TRUE,
                           !.wake = now + (rec.cfg.throttleTime - timeSinceLastExecution)]]
            /\ UNCHANGED <<lastExecutionTime, inFlightRequests, debounceTimers, timers,
                           transportCalls>>
       ELSE ThrottleExecute(c, r)

\* Mutant of throttledFetch: the in-flight request is looked up first, whatever
\* the time since the last execution.
ThrottledFetchInFlightFirst(c, rec) ==
  LET key == CallKey(rec.url, rec.options)
      currentTime == now
      lastExecution == IF Has(lastExecutionTime, key) THEN lastExecutionTime[key] ELSE 0
      timeSinceLastExecution == currentTime - lastExecution
      r == [rec EXCEPT !.path = "throttle", !.currentTime = currentTime]
  IN IF Has(inFlightRequests, key)
       THEN /\ calls' = [calls EXCEPT ![c] =
                 [r EXCEPT !.pc = "coalesced", !.owner = inFlightRequests[key]]]
            /\ UNCHANGED <<lastExecutionTime, inFlightRequests, debounceTimers, timers,
                           transportCalls>>
     ELSE IF timeSinceLastExecution < rec.cfg.throttleTime
       THEN /\ calls' = [calls EXCEPT ![c] =
                 [r EXCEPT !.pc = "throttleWait", !.waited = TRUE,
                           !.wake = now + (rec.cfg.throttleTime - timeSinceLastExecution)]]
            /\ UNCHANGED <<lastExecutionTime, inFlightRequests, debounceTimers, timers,
                           transportCalls>>
     ELSE ThrottleExecute(c, r)

\* throttledFetch up to its first suspension.
ThrottledFetch(c, rec) ==
  LET key == CallKey(rec.url, rec.options)
      currentTime == now
      lastExecution == IF Has(lastExecutionTime, key) THEN lastExecutionTime[key] ELSE 0
      timeSinceLastExecution == currentTime - lastExecution
      r == [rec EXCEPT !.path = "throttle", !.currentTime = currentTime]
  IN IF timeSinceLastExecution < rec.cfg.throttleTime
       THEN /\ calls' = [calls EXCEPT ![c] =
                 IF Has(inFlightRequests, key)
                   THEN [r EXCEPT !.pc = "coalesced", !.owner = inFlightRequests[key]]
                   ELSE [r EXCEPT !.pc = "throttleWait", !.waited = TRUE,
                           !.wake = now + (rec.cfg.throttleTime - timeSinceLastExecution)]]
            /\ UNCHANGED <<lastExecutionTime, inFlightRequests, debounceTimers, timers,
                           transportCalls>>
       ELSE ThrottleExecute(c, r)

\* Mutant of debouncedFetch: the key's pending timer is not cleared.
DebouncedFetchKeepsTimer(c, rec) ==
  LET key == CallKey(rec.url, rec.options)
  IN /\ calls' = [calls EXCEPT ![c] =
           [rec EXCEPT !.path = "debounce", !.pc = "debounceWait",
                       !.wake = now + rec.cfg.debounceTime]]
     /\ timers' = timers \cup {c}
     /\ debounceTimers' = Put(debounceTimers, key, c)
     /\ UNCHANGED <<lastExecutionTime, inFlightRequests, transportCalls>>

\* debouncedFetch: clear the key's timer, set a new one and store its id.
DebouncedFetch(c, rec) ==
  LET key == CallKey(rec.url, rec.options)
      cleared == IF Has(debounceTimers, key) THEN {debounceTimers[key]} ELSE {}
  IN /\ calls' = [calls EXCEPT ![c] =
           [rec EXCEPT !.path = "debounce", !.pc = "debounceWait",
                       !.wake = now + rec.cfg.debounceTime]]
     /\ timers' = (timers \ cleared) \cup {c}
     /\ debounceTimers' = Put(debounceTimers, key, c)
     /\ UNCHANGED <<lastExecutionTime, inFlightRequests, transportCalls>>

\* Mutant of the dispatch: debounceTime is looked at before throttleTime.
DispatchDebounceFirst(c, rec) ==
  IF rec.cfg.debounceTime > 0 THEN DebouncedFetch(c, rec)
  ELSE IF rec.cfg.throttleTime > 0 THEN ThrottledFetch(c, rec)
  ELSE ImmediateFetch(c, rec)

\* The policy chosen by fetch after the cache lookup.
Dispatch(c, rec) ==
  IF rec.cfg.throttleTime > 0 THEN ThrottledFetch(c, rec)
  ELSE IF rec.cfg.debounceTime > 0 THEN DebouncedFetch(c, rec)
  ELSE ImmediateFetch(c, rec)

\* Mutant of the settlement: the callers that were handed the promise of the
\* execution are not settled with it.
SettleOwnerOnly(c, r) == [d \in CallIds |-> IF d = c THEN r ELSE calls[d]]

\* A settled execution settles the callers that were handed its promise.
SettleAll(c, r) ==
  [d \in CallIds |->
     IF d = c THEN r
     ELSE IF Settled(r) /\ calls[d].pc = "coalesced" /\ calls[d].owner = c
       THEN [calls[d] EXCEPT !.pc = r.pc, !.result = r.result, !.error = r.error]
     ELSE calls[d]]

\* History: a caller of key is waiting out the throttle delta.
WaiterOn(key) ==
  \E d \in CallIds :
    calls[d].pc = "throttleWait" /\ CallKey(calls[d].url, calls[d].options) = key

\* ------------------------------------------------------------------ actions
\* fetch(url, options, config) up to its first suspension.
Fetch(c, url, options, over) ==
  /\ calls[c].pc = "idle"
  /\ \A d \in CallIds : d < c => calls[d].pc # "idle"
  /\ LET mergedConfig == [Merge(config, over) EXCEPT !.url = url]
         rec == [calls[c] EXCEPT !.url = url, !.options = options,
                                 !.cfg = mergedConfig, !.issuedAt = now,
                                 !.overlap = WaiterOn(CallKey(url, options))]
     IN IF mergedConfig.withCache
          THEN /\ calls' = [calls EXCEPT ![c] = [rec EXCEPT !.pc = "cacheGet"]]
               /\ UNCHANGED <<lastExecutionTime, inFlightRequests, debounceTimers, timers,
                              transportCalls>>
          ELSE Dispatch(c, rec)
  /\ UNCHANGED <<now, config, indexedDB, cache, unwritten, harness>>

\* fetch resumed after cacheManager.get: a hit returns, a miss is dispatched.
\* The store answers its requests in the order they were made.
CacheGetReturn(c) ==
  /\ calls[c].pc = "cacheGet"
  /\ \A d \in CallIds : d < c => calls[d].pc # "cacheGet"
  /\ unwritten = {}
  /\ LET rec == calls[c]
         cachedData == CacheGet(cache, indexedDB,
                                GenerateCacheKey(rec.url, rec.cfg.cacheKey), now)
     IN IF Truthy(cachedData)
          THEN /\ calls' = [calls EXCEPT ![c] =
                     [rec EXCEPT !.pc = "resolved", !.path = "cache", !.result = cachedData]]
               /\ UNCHANGED <<lastExecutionTime, inFlightRequests, debounceTimers, timers,
                              transportCalls>>
          ELSE Dispatch(c, rec)
  /\ UNCHANGED <<now, config, indexedDB, cache, unwritten, harness>>

\* The throttle wait of throttledFetch is over.
ThrottleWake(c) ==
  /\ calls[c].pc = "throttleWait"
  /\ calls[c].wake <= now
  /\ ThrottleExecute(c, calls[c])
  /\ UNCHANGED <<now, config, indexedDB, cache, unwritten, harness>>

\* The debounce timer fires: executeRequest.
DebounceFire(c) ==
  /\ c \in timers
  /\ calls[c].wake <= now
  /\ LET rec == calls[c]
         r == BeginAttempt([rec EXCEPT !.startedAt = now], NoRetryResult,
                           transportCalls + 1, now)
     IN /\ calls' = [calls EXCEPT ![c] = r]
        /\ transportCalls' = transportCalls + Sends(r)
        /\ lastExecutionTime' = Put(lastExecutionTime, CallKey(rec.url, rec.options), now)
  /\ timers' = timers \ {c}
  /\ UNCHANGED <<now, config, inFlightRequests, debounceTimers, indexedDB, cache, unwritten, harness>>

\* The transport call of an attempt completes with resp: the rest of the try
\* block, and on an error the catch block, up to the next suspension; a settled
\* throttled execution runs the finally block of throttledFetch.
TransportReturn(c, resp, successResult, errorResult) ==
  /\ calls[c].pc = "transport"
  /\ LET rec == calls[c]
         out == AttemptOutcome(rec.cfg, resp, successResult, rec.serial)
         r0 == [rec EXCEPT
                  !.transportFailures =
                     IF out.error.kind \in {"TransportFailure", "HTTPError"} THEN @ + 1 ELSE @,
                  !.onHttpResponseCalls =
                     IF ~resp.thrown /\ rec.cfg.onHttpResponse THEN @ + 1 ELSE @,
                  !.onSuccessCalls = IF out.hooked THEN @ + 1 ELSE @]
         r1 == IF out.ok THEN [r0 EXCEPT !.pc = "resolved", !.result = out.data]
               ELSE OnFailure(r0, out.error, errorResult, now)
     IN /\ calls' = SettleAll(c, r1)
        /\ cache' = IF out.ok /\ rec.cfg.withCache
                      THEN CacheSet(cache, indexedDB,
                                    GenerateCacheKey(rec.cfg.url, rec.cfg.cacheKey),
                                    out.data, rec.cfg.cacheTTL, now)
                      ELSE cache
        /\ unwritten' = IF out.ok /\ rec.cfg.withCache
                          THEN PutRequested(unwritten, indexedDB,
                                            GenerateCacheKey(rec.cfg.url, rec.cfg.cacheKey))
                          ELSE unwritten
        /\ setLog' = IF out.ok /\ rec.cfg.withCache
                       THEN LogSet(setLog, GenerateCacheKey(rec.cfg.url, rec.cfg.cacheKey),
                                   out.data, rec.cfg.cacheTTL, now)
                       ELSE setLog
        /\ inFlightRequests' =
             IF Settled(r1) /\ rec.path = "throttle"
               THEN Delete(inFlightRequests, CallKey(rec.url, rec.options))
               ELSE inFlightRequests
  /\ UNCHANGED <<now, config, lastExecutionTime, debounceTimers, timers, transportCalls,
                 indexedDB, instance, lastCall, cacheOps, requested>>

\* The backoff wait is over: the next turn of the while loop.
BackoffWake(c, retryResult) ==
  /\ calls[c].pc = "backoff"
  /\ calls[c].wake <= now
  /\ LET r == BeginAttempt(calls[c], retryResult, transportCalls + 1, now)
     IN /\ calls' = [calls EXCEPT ![c] = r]
        /\ transportCalls' = transportCalls + Sends(r)
  /\ UNCHANGED <<now, config, lastExecutionTime, inFlightRequests, debounceTimers, timers,
                 indexedDB, cache, unwritten, harness>>

\* The success event of the put requested for key: the entry is in the store.
PutSuccess(key) ==
  /\ key \in unwritten
  /\ unwritten' = unwritten \ {key}
  /\ UNCHANGED <<now, config, calls, lastExecutionTime, inFlightRequests, debounceTimers,
                 timers, transportCalls, indexedDB, cache, harness>>

\* A timer that is due fires before the clock moves on.
TimerDue(c) ==
  \/ calls[c].pc \in {"throttleWait", "backoff"} /\ calls[c].wake <= now
  \/ c \in timers /\ calls[c].wake <= now

\* The clock advances by step, up to ticks steps after the first call, while one
\* of the calls ids is still to be made or to settle; a transport call completes
\* within latency steps, a store request within the current step.
Tick(step, ticks, latency, ids) ==
  /\ now + step <= Epoch + step * ticks
  /\ calls[1].pc # "idle"
  /\ \E c \in ids : ~Settled(calls[c])
  /\ \A c \in CallIds :
        calls[c].pc = "transport" => now + step <= calls[c].sentAt + step * latency
  /\ \A c \in CallIds : ~TimerDue(c)
  /\ \A c \in CallIds : calls[c].pc # "cacheGet"
  /\ unwritten = {}
  /\ now' = now + step
  /\ UNCHANGED <<config, calls, lastExecutionTime, inFlightRequests, debounceTimers,
                 timers, transportCalls, indexedDB, cache, unwritten, harness>>

\* ----------------------------------------------------------- specifications
NoOverride == EmptyMap
Overrides == {NoOverride}

\* The last step was no direct CacheManager call; no config was passed to
\* getInstance.
NoCall == [op |-> "none", key |-> "", value |-> NoData, removed |-> {}]
NoRequest == [given |-> FALSE, config |-> EmptyMap]

InitWith(configs) ==
  /\ now = Epoch
  /\ config \in configs
  /\ calls = [c \in CallIds |-> IdleCall]
  /\ lastExecutionTime = EmptyMap
  /\ inFlightRequests = EmptyMap
  /\ debounceTimers = EmptyMap
  /\ timers = {}
  /\ transportCalls = 0
  /\ indexedDB = TRUE
  /\ cache = EmptyMap
  /\ unwritten = {}
  /\ instance = TRUE
  /\ lastCall = NoCall
  /\ setLog = EmptyMap
  /\ cacheOps = 0
  /\ requested = NoRequest

\* The results a configured hook can give; a hook that is not configured gives
\* none.
ResultsOf(configured, results, none) == IF configured THEN results ELSE {none}

\* The retry executor alone: one call on the immediate path, the clock in steps
\* of 100 ms.
RetryTicks == 7
RetryLatency == 1

HookSets == { <<FALSE, FALSE, FALSE, FALSE>>, <<TRUE, TRUE, TRUE, TRUE>> }

RetryConfigs ==
  { [DefaultConfig EXCEPT !.maxRetries = m, !.initialBackoff = 100, !.maxBackoff = mb,
                          !.retryOnErrors = roe, !.onRetry = h[1], !.onHttpResponse = h[2],
                          !.onSuccess = h[3], !.onError = h[4]] :
      m \in 0..MaxRetriesBound, mb \in {300, 1000}, roe \in {{500}, {404, 500}},
      h \in HookSets }

InitRetry == InitWith(RetryConfigs)

NextRetry ==
  \/ \E url \in {"u1"}, options \in Options, over \in Overrides :
       Fetch(1, url, options, over)
  \/ \E c \in CallIds, resp \in Responses :
       \E sr \in ResultsOf(calls[c].cfg.onSuccess, SuccessResults, "void"),
          er \in ResultsOf(calls[c].cfg.onError, ErrorResults, "void") :
         TransportReturn(c, resp, sr, er)
  \/ \E c \in CallIds :
       \E rr \in ResultsOf(calls[c].cfg.onRetry, RetryResults, NoRetryResult) :
         BackoffWake(c, rr)
  \/ Tick(100, RetryTicks, RetryLatency, {1})

SpecRetry == InitRetry /\ [][NextRetry]_vars

\* What the transport answers in the scheduler specifications: a network error
\* or a 200 response with a JSON body.
SchedResponses == {Thrown, Response(200, TRUE, TRUE)}

\* The throttle path: throttleTime = 1000 ms, executions of one attempt, the
\* clock in steps of 200 ms.
ThrottleTicks == 5

ThrottleConfigs == { [DefaultConfig EXCEPT !.throttleTime = 1000, !.maxRetries = 1] }

InitThrottle == InitWith(ThrottleConfigs)

NextThrottle ==
  \/ \E c \in CallIds, url \in Urls, options \in Options, over \in Overrides :
       Fetch(c, url, options, over)
  \/ \E c \in CallIds : ThrottleWake(c)
  \/ \E c \in CallIds, resp \in SchedResponses : TransportReturn(c, resp, "void", "void")
  \/ Tick(200, ThrottleTicks, ThrottleTicks, CallIds)

SpecThrottle == InitThrottle /\ [][NextThrottle]_vars

\* The debounce path: debounceTime = 500 ms, the clock in steps of 100 ms.
DebounceTicks == 8
DebounceLatency == 1

DebounceConfigs ==
  { [DefaultConfig EXCEPT !.debounceTime = 500, !.maxRetries = m, !.initialBackoff = 100,
                          !.maxBackoff = 1000] : m \in {1, 2} }

InitDebounce == InitWith(DebounceConfigs)

NextDebounce ==
  \/ \E c \in CallIds, url \in Urls, options \in Options, over \in Overrides :
       Fetch(c, url, options, over)
  \/ \E c \in CallIds : DebounceFire(c)
  \/ \E c \in CallIds, resp \in SchedResponses : TransportReturn(c, resp, "void", "void")
  \/ \E c \in CallIds : BackoffWake(c, NoRetryResult)
  \/ Tick(100, DebounceTicks, DebounceLatency, CallIds)

SpecDebounce == InitDebounce /\ [][NextDebounce]_vars

\* ------------------------------------------------------- retry executor claims
Started(rec) == rec.sent > 0

\* C1: with maxRetries >= 1, an execution whose transport calls all failed (a
\* thrown error or a retryable status) and whose onError never returned a
\* replacement has made exactly maxRetries transport calls when it rejects, is
\* rejected as soon as it has made them, and no execution makes more than
\* maxRetries transport calls.
C1_ExactlyMaxRetriesCalls ==
  \A c \in CallIds :
    LET rec == calls[c] IN
      /\ rec.sent <= (IF rec.cfg.maxRetries > 0 THEN rec.cfg.maxRetries ELSE 0)
      /\ ( /\ Started(rec)
           /\ rec.pc # "transport"
           /\ rec.transportFailures = rec.sent
           /\ rec.error.kind # "Replacement" )
         => /\ rec.pc \in {"backoff", "rejected"}
            /\ (rec.pc = "rejected") <=> (rec.sent = rec.cfg.maxRetries)

C1_Witness ==
  \E c \in CallIds :
    /\ calls[c].cfg.maxRetries = 3
    /\ calls[c].pc = "rejected"
    /\ calls[c].transportFailures = 3
    /\ calls[c].sent = 3
    /\ calls[c].error.kind # "Replacement"

\* C2 (as claimed): the wait before the k-th retry is
\* min(initialBackoff * backoffFactor^(k-1), maxBackoff): 100 ms, then 200 ms.
C2_WaitsFromInitialBackoff ==
  \A c \in CallIds :
    \A k \in DOMAIN calls[c].waits :
      calls[c].waits[k] =
        Min(calls[c].cfg.initialBackoff * Pow(calls[c].cfg.backoffFactor, k - 1),
            calls[c].cfg.maxBackoff)

\* C3 (as claimed): an execution that rejects after exhausting its attempts on
\* transport or retryable-status failures rejects with a MaxRetriesExceeded
\* error, not with the last failure itself.
C3_RejectsWithMaxRetriesExceeded ==
  \A c \in CallIds :
    LET rec == calls[c] IN
      ( /\ rec.pc = "rejected"
        /\ rec.cfg.maxRetries >= 1
        /\ rec.transportFailures = rec.sent
        /\ rec.sent = rec.cfg.maxRetries
        /\ rec.error.kind # "Replacement" )
      => /\ rec.error.kind = "MaxRetriesExceeded"
         /\ rec.error # rec.lastFailure

\* A response that is not ok and whose status is not in retryOnErrors.
PassesThrough(cfg, resp) ==
  ~resp.thrown /\ ~Ok(resp) /\ resp.status \notin cfg.retryOnErrors

C5_FormatErrorNotRetried ==
  \A c \in CallIds :
    calls[c].lastFailure.kind = "InvalidResponseFormat"
    => /\ calls[c].pc = "rejected"
       /\ calls[c].error.kind = "InvalidResponseFormat"
       /\ calls[c].sent = calls[c].lastFailure.serial

Issued(rec) == rec.pc # "idle"
KeyOf(rec) == CallKey(rec.url, rec.options)
SameOutcome(r1, r2) == r1.pc = r2.pc /\ r1.result = r2.result /\ r1.error = r2.error

\* A caller that was handed an in-flight promise makes no transport call of its
\* own and settles exactly as the call that owns the promise.
FollowsOwner(d) ==
  calls[d].owner # 0
  => /\ calls[d].sent = 0
     /\ calls[d].startedAt = 0
     /\ IF Settled(calls[calls[d].owner])
          THEN SameOutcome(calls[d], calls[calls[d].owner])
          ELSE calls[d].pc = "coalesced"

\* C7 (as claimed): with throttleTime = 1000, of two calls with the same key
\* issued 200 ms apart the second makes no transport call and settles with the
\* result of the first, whatever the duration of the first request.
C7_SecondCallNeverExecutes ==
  \A c, d \in CallIds :
    ( /\ c < d
      /\ Issued(calls[c]) /\ Issued(calls[d])
      /\ KeyOf(calls[c]) = KeyOf(calls[d])
      /\ calls[c].cfg.throttleTime = 1000
      /\ calls[d].issuedAt = calls[c].issuedAt + 200 )
    => /\ calls[d].sent = 0
       /\ calls[d].pc # "throttleWait"
       /\ Settled(calls[d]) => SameOutcome(calls[d], calls[c])

\* C7 (amended): with throttleTime = 1000, a call issued 200 ms after the call
\* whose request is registered in flight for its key is handed that request: it
\* makes no transport call, changes no scheduler state and settles with the
\* very result of the first call.
C7_CoalescedWhileInFlight ==
  [][/\ \A d \in CallIds, url \in Urls, options \in Options :
          ( /\ calls[d].pc = "idle"
            /\ config.throttleTime = 1000
            /\ Has(inFlightRequests, CallKey(url, options))
            /\ now = calls[inFlightRequests[CallKey(url, options)]].issuedAt + 200
            /\ Fetch(d, url, options, NoOverride) )
          => /\ calls'[d].pc = "coalesced"
             /\ calls'[d].owner = inFlightRequests[CallKey(url, options)]
             /\ transportCalls' = transportCalls
             /\ UNCHANGED <<lastExecutionTime, inFlightRequests>>
     /\ \A d \in CallIds : FollowsOwner(d)']_vars

C7_Witness ==
  \E c, d \in CallIds :
    /\ c < d
    /\ calls[d].owner = c
    /\ calls[d].issuedAt = calls[c].issuedAt + 200
    /\ calls[c].cfg.throttleTime = 1000
    /\ calls[c].pc = "resolved" /\ calls[d].pc = "resolved"
    /\ calls[d].result = calls[c].result
    /\ calls[c].sent = 1 /\ calls[d].sent = 0
    /\ transportCalls = 1

\* An execution on key started by a throttled call is unsettled.
InFlightOn(key) ==
  \E c \in CallIds :
    /\ calls[c].path = "throttle"
    /\ calls[c].pc \in {"transport", "backoff"}
    /\ KeyOf(calls[c]) = key

\* C8 (as claimed): a throttled call that arrives while an execution for its
\* key is in flight is coalesced and starts no execution, however long that
\* execution has been running.
C8_AlwaysCoalescedWhileInFlight ==
  [][\A d \in CallIds, url \in Urls, options \in Options :
       ( /\ calls[d].pc = "idle"
         /\ InFlightOn(CallKey(url, options))
         /\ Fetch(d, url, options, NoOverride) )
       => /\ calls'[d].pc = "coalesced"
          /\ transportCalls' = transportCalls]_vars

\* Date.now() - (lastExecutionTime.get(key) || 0)
Elapsed(key) == now - (IF Has(lastExecutionTime, key) THEN lastExecutionTime[key] ELSE 0)

\* C8 (amended): a throttled call that arrives less than throttleTime after
\* lastExecutionTime[key] while a request is registered in flight for its key
\* is coalesced onto that request and starts no execution; a call that arrives
\* throttleTime or more after lastExecutionTime[key] starts an execution of its
\* own and registers it, also while a request is in flight.
C8_CoalescedWithinThrottleTime ==
  [][\A d \in CallIds, url \in Urls, options \in Options :
       LET key == CallKey(url, options) IN
       ( /\ calls[d].pc = "idle"
         /\ config.throttleTime > 0
         /\ Fetch(d, url, options, NoOverride) )
       => /\ (Elapsed(key) < config.throttleTime /\ Has(inFlightRequests, key))
             => /\ calls'[d].pc = "coalesced"
                /\ calls'[d].owner = inFlightRequests[key]
                /\ ~Settled(calls[inFlightRequests[key]])
                /\ KeyOf(calls[inFlightRequests[key]]) = key
                /\ transportCalls' = transportCalls
                /\ inFlightRequests' = inFlightRequests
          /\ Elapsed(key) >= config.throttleTime
             => /\ calls'[d].pc = "transport"
                /\ calls'[d].startedAt = now
                /\ transportCalls' = transportCalls + 1
                /\ inFlightRequests' = Put(inFlightRequests, key, d)]_vars

C8_Witness ==
  \E c, d \in CallIds :
    /\ calls[d].pc = "coalesced"
    /\ calls[d].owner = c
    /\ calls[c].pc = "transport"
    /\ now - calls[c].startedAt >= 800
    /\ now - calls[c].currentTime = 800

\* No call arrived while another caller of its key was waiting out the delta.
NoConcurrentWaiters == \A c \in CallIds : ~calls[c].overlap

\* C9 (as claimed): when no two callers of a key wait concurrently, the start
\* times of two executions on the key differ by at least throttleTime, and a
\* caller that executes after waiting has recorded the time its execution
\* started as lastExecutionTime[key].
C9_ExecutionsSpacedByThrottleTime ==
  NoConcurrentWaiters
  => /\ \A c, d \in CallIds :
          ( /\ c # d
            /\ calls[c].path = "throttle" /\ calls[d].path = "throttle"
            /\ KeyOf(calls[c]) = KeyOf(calls[d])
            /\ calls[c].startedAt # 0 /\ calls[d].startedAt # 0
            /\ calls[c].startedAt <= calls[d].startedAt )
          => calls[d].startedAt - calls[c].startedAt >= calls[d].cfg.throttleTime
     /\ \A c \in CallIds :
          ( /\ calls[c].waited
            /\ Has(inFlightRequests, KeyOf(calls[c]))
            /\ inFlightRequests[KeyOf(calls[c])] = c )
          => lastExecutionTime[KeyOf(calls[c])] = calls[c].startedAt

\* A later call with the same key arrived less than debounceTime after call c.
Superseded(c) ==
  \E d \in CallIds :
    /\ d > c
    /\ Issued(calls[d])
    /\ KeyOf(calls[d]) = KeyOf(calls[c])
    /\ calls[d].issuedAt - calls[c].issuedAt < calls[c].cfg.debounceTime

\* Three calls with one key, 100 ms apart, under debounceTime = 500.
ThreeCallsApart ==
  /\ \A c \in 1..3 : calls[c].path = "debounce" /\ calls[c].cfg.debounceTime = 500
  /\ KeyOf(calls[1]) = KeyOf(calls[2]) /\ KeyOf(calls[2]) = KeyOf(calls[3])
  /\ calls[2].issuedAt = calls[1].issuedAt + 100
  /\ calls[3].issuedAt = calls[2].issuedAt + 100

\* C10: a debounced call that is followed within debounceTime by a call with
\* its key never executes and never settles; a debounced call executes only
\* when its own timer fires, debounceTime after it was issued; of three calls
\* 100 ms apart under debounceTime = 500 only the third makes a transport call
\* (one, when the transport succeeds) and its result resolves the third call.
C10_OnlyLastDebouncedCallExecutes ==
  /\ \A c \in CallIds :
       calls[c].path = "debounce"
       => /\ Superseded(c)
             => /\ calls[c].pc = "debounceWait"
                /\ c \notin timers
                /\ calls[c].sent = 0
          /\ calls[c].startedAt # 0
             => /\ calls[c].startedAt = calls[c].issuedAt + calls[c].cfg.debounceTime
                /\ ~Superseded(c)
          /\ (calls[c].pc = "debounceWait" /\ ~Superseded(c) /\ c \notin timers)
             => \E d \in CallIds : d > c /\ Issued(calls[d]) /\ KeyOf(calls[d]) = KeyOf(calls[c])
  /\ ThreeCallsApart
     => /\ calls[1].sent = 0 /\ calls[2].sent = 0
        /\ calls[1].pc = "debounceWait" /\ calls[2].pc = "debounceWait"
        /\ (Settled(calls[3]) /\ calls[3].transportFailures = 0)
           => /\ calls[3].pc = "resolved"
              /\ calls[3].sent = 1
              /\ calls[3].result.serial = calls[3].serial

C10_Witness ==
  /\ ThreeCallsApart
  /\ calls[3].pc = "resolved"
  /\ calls[3].startedAt = calls[3].issuedAt + 500
  /\ calls[1].pc = "debounceWait" /\ calls[2].pc = "debounceWait"
  /\ transportCalls = 1

\* ------------------------------------------------------- CacheManager calls
MaxCacheOps == 3   \* direct CacheManager calls made in one behaviour
StoreTicks == 2    \* clock steps taken in the CacheManager specifications

StoreKeys == {"a", "ab", "bb"}
Fragments == {"", "a", "b", "ba"}
\* Stored values: one truthy, one falsy.
StoreValues ==
  { [body |-> 1, format |-> "json", serial |-> 0, replaced |-> FALSE, falsy |-> FALSE],
    [body |-> 2, format |-> "text", serial |-> 0, replaced |-> FALSE, falsy |-> TRUE] }
\* Lifetimes passed to set: none (the default EXPIRATION_TIME), 7.5 minutes.
Lifetimes == {Undefined, 450000}

\* value occurs in key: key = pre \o value \o post for some pre and post.
Contains(key, value) ==
  \E i \in 0..Len(key) : \E j \in i..Len(key) : SubSeq(key, i + 1, j) = value

\* cacheManager.set(key, value, expirationTime)
CacheManagerSet(key, value, expirationTime) ==
  /\ cacheOps < MaxCacheOps
  /\ cache' = CacheSet(cache, indexedDB, key, value, expirationTime, now)
  /\ unwritten' = PutRequested(unwritten, indexedDB, key)
  /\ setLog' = LogSet(setLog, key, value, expirationTime, now)
  /\ cacheOps' = cacheOps + 1
  /\ lastCall' = [NoCall EXCEPT !.op = "set"]
  /\ UNCHANGED <<now, config, calls, lastExecutionTime, inFlightRequests, debounceTimers,
                 timers, transportCalls, indexedDB, instance, requested>>

\* cacheManager.get(key)
CacheManagerGet(key) ==
  /\ cacheOps < MaxCacheOps
  /\ unwritten = {}
  /\ lastCall' = [NoCall EXCEPT !.op = "get", !.key = key,
                               !.value = CacheGet(cache, indexedDB, key, now)]
  /\ cacheOps' = cacheOps + 1
  /\ UNCHANGED <<now, config, calls, lastExecutionTime, inFlightRequests, debounceTimers,
                 timers, transportCalls, indexedDB, cache, unwritten, instance, setLog, requested>>

\* cacheManager.cleanupExpiredData()
CleanupExpiredData ==
  /\ cacheOps < MaxCacheOps
  /\ unwritten = {}
  /\ cache' = CleanupExpired(cache, indexedDB, now)
  /\ cacheOps' = cacheOps + 1
  /\ lastCall' = [NoCall EXCEPT !.op = "cleanupExpiredData",
                               !.removed = DOMAIN cache \ DOMAIN cache']
  /\ UNCHANGED <<now, config, calls, lastExecutionTime, inFlightRequests, debounceTimers,
                 timers, transportCalls, indexedDB, unwritten, instance, setLog, requested>>

\* cacheManager.invalidateByKeyContaining(value); the history marks the sets
\* on the keys that contain value.
InvalidateByKeyContaining(value) ==
  /\ cacheOps < MaxCacheOps
  /\ unwritten = {}
  /\ cache' = InvalidateContaining(cache, indexedDB, value)
  /\ setLog' = [k \in DOMAIN setLog |->
                  IF Contains(k, value)
                    THEN [setLog[k] EXCEPT !.removedBy = "invalidateByKeyContaining"]
                    ELSE setLog[k]]
  /\ cacheOps' = cacheOps + 1
  /\ lastCall' = [NoCall EXCEPT !.op = "invalidateByKeyContaining", !.key = value,
                               !.removed = DOMAIN cache \ DOMAIN cache']
  /\ UNCHANGED <<now, config, calls, lastExecutionTime, inFlightRequests, debounceTimers,
                 timers, transportCalls, indexedDB, unwritten, instance, requested>>

\* cacheManager.invalidateAllCache(); the history marks every set.
InvalidateAllCache ==
  /\ cacheOps < MaxCacheOps
  /\ unwritten = {}
  /\ cache' = InvalidateAll(cache, indexedDB)
  /\ setLog' = [k \in DOMAIN setLog |-> [setLog[k] EXCEPT !.removedBy = "invalidateAllCache"]]
  /\ cacheOps' = cacheOps + 1
  /\ lastCall' = [NoCall EXCEPT !.op = "invalidateAllCache",
                               !.removed = DOMAIN cache \ DOMAIN cache']
  /\ UNCHANGED <<now, config, calls, lastExecutionTime, inFlightRequests, debounceTimers,
                 timers, transportCalls, indexedDB, unwritten, instance, requested>>

\* The clock advances by step, up to ticks steps.
StoreTick(step, ticks) ==
  /\ now + step <= Epoch + step * ticks
  /\ unwritten = {}
  /\ now' = now + step
  /\ lastCall' = NoCall
  /\ UNCHANGED <<config, calls, lastExecutionTime, inFlightRequests, debounceTimers,
                 timers, transportCalls, indexedDB, cache, unwritten, instance, setLog, cacheOps,
                 requested>>

\* The CacheManager alone, with a store: the clock in steps of 7.5 minutes.
InitStore == InitWith({DefaultConfig})

NextStore ==
  \/ \E key \in StoreKeys, value \in StoreValues, expirationTime \in Lifetimes :
       CacheManagerSet(key, value, expirationTime)
  \/ \E key \in StoreKeys : CacheManagerGet(key)
  \/ CleanupExpiredData
  \/ \E value \in Fragments : InvalidateByKeyContaining(value)
  \/ InvalidateAllCache
  \/ \E key \in unwritten : PutSuccess(key)
  \/ StoreTick(450000, StoreTicks)

SpecStore == InitStore /\ [][NextStore]_vars

\* ------------------------------------------------------------- cache claims
\* The cache short-circuit of fetch: withCache = true, cacheTTL = 60000, a store
\* is present, the clock in steps of 20000 ms. The transport answers with a
\* network error, a JSON body, a text body or an empty text body.
CachedTicks == 4
CachedLatency == 1

CachedResponses ==
  {Thrown, Response(200, TRUE, TRUE), Response(200, FALSE, FALSE), EmptyBody(200, FALSE)}

CachedConfigs ==
  { [DefaultConfig EXCEPT !.withCache = TRUE, !.cacheTTL = 60000, !.maxRetries = 1] }

InitCached == InitWith(CachedConfigs)

NextCached ==
  \/ \E c \in CallIds, url \in Urls, options \in Options, over \in Overrides :
       Fetch(c, url, options, over)
  \/ \E c \in CallIds : CacheGetReturn(c)
  \/ \E c \in CallIds, resp \in CachedResponses : TransportReturn(c, resp, "void", "void")
  \/ \E key \in unwritten : PutSuccess(key)
  \/ Tick(20000, CachedTicks, CachedLatency, CallIds)

SpecCached == InitCached /\ [][NextCached]_vars

\* The last value written for the cache key of call d was written before d was
\* issued, and d was issued less than cacheTTL after that write.
WrittenBefore(d) ==
  LET key == GenerateCacheKey(calls[d].url, calls[d].cfg.cacheKey) IN
    /\ calls[d].pc \notin {"idle", "cacheGet"}
    /\ calls[d].cfg.withCache
    /\ indexedDB
    /\ Has(setLog, key)
    /\ setLog[key].ttl = calls[d].cfg.cacheTTL
    /\ setLog[key].at < calls[d].issuedAt
    /\ calls[d].issuedAt < setLog[key].at + calls[d].cfg.cacheTTL

\* C11 (as claimed): with withCache = true and cacheTTL = 60000, a fetch issued
\* less than cacheTTL after a value v was written for its address by an earlier
\* fetch returns v from the cache and makes no transport call, whatever v is.
C11_CachedValueServed ==
  \A d \in CallIds :
    WrittenBefore(d)
    => /\ calls[d].path = "cache"
       /\ calls[d].pc = "resolved"
       /\ calls[d].result = setLog[GenerateCacheKey(calls[d].url, calls[d].cfg.cacheKey)].value
       /\ calls[d].sent = 0

\* What a read of key must give by the history of the sets: the value last set
\* while less than its lifetime has passed since, absent from then on.
Expected(key) ==
  IF now < setLog[key].at + setLog[key].ttl THEN setLog[key].value ELSE NoData

\* The last set on key has not been followed by an invalidation of key.
LiveSet(key) == Has(setLog, key) /\ setLog[key].removedBy = "none"

\* C12: with a store, for every key and lifetime t, after set(key, v, t) at time
\* T (and no invalidation of key since) a get(key) at a time before T + t
\* returns v and a get(key) at or after T + t returns null, whether or not the
\* entry is still in the store and whether or not cleanupExpiredData has run.
C12_ReadableUntilExpiry ==
  indexedDB
  => /\ \A key \in StoreKeys :
          LiveSet(key) => CacheGet(cache, indexedDB, key, now) = Expected(key)
     /\ (lastCall.op = "get" /\ LiveSet(lastCall.key))
          => lastCall.value = Expected(lastCall.key)

\* A get has just returned null for an entry that is still in the store, whose
\* lifetime of 7.5 minutes has just run out.
C12_Witness ==
  /\ lastCall.op = "get"
  /\ lastCall.value = NoData
  /\ LiveSet(lastCall.key)
  /\ Has(cache, lastCall.key)
  /\ setLog[lastCall.key].ttl = 450000
  /\ now = setLog[lastCall.key].at + 450000

\* C13: with a store, invalidateByKeyContaining(value) removes exactly the
\* entries whose key contains value and leaves every other entry as it was.
C13_InvalidateRemovesMatching ==
  [][\A value \in Fragments :
       (indexedDB /\ InvalidateByKeyContaining(value))
       => /\ DOMAIN cache' = {k \in DOMAIN cache : ~Contains(k, value)}
          /\ \A k \in DOMAIN cache' : cache'[k] = cache[k]]_vars

\* invalidateByKeyContaining("a") has just removed the entry of "ab" and left
\* the entry of "bb".
C13_Witness ==
  /\ lastCall.op = "invalidateByKeyContaining"
  /\ lastCall.key = "a"
  /\ lastCall.removed = {"ab"}
  /\ DOMAIN cache = {"bb"}

NoStoreCalls == 2   \* fetch calls issued without a store
NoStoreTicks == 2   \* clock steps taken without a store

NoStoreResponses == {Thrown, Response(200, TRUE, TRUE)}

NoStoreConfigs ==
  { [DefaultConfig EXCEPT !.withCache = w, !.cacheTTL = 60000, !.maxRetries = 1] :
      w \in BOOLEAN }

InitNoStore ==
  /\ now = Epoch
  /\ config \in NoStoreConfigs
  /\ calls = [c \in CallIds |-> IdleCall]
  /\ lastExecutionTime = EmptyMap
  /\ inFlightRequests = EmptyMap
  /\ debounceTimers = EmptyMap
  /\ timers = {}
  /\ transportCalls = 0
  /\ indexedDB = FALSE
  /\ cache = EmptyMap
  /\ unwritten = {}
  /\ instance = TRUE
  /\ lastCall = NoCall
  /\ setLog = EmptyMap
  /\ cacheOps = 0
  /\ requested = NoRequest

NextNoStore ==
  \/ \E c \in 1..NoStoreCalls, options \in Options, over \in Overrides :
       Fetch(c, "u1", options, over)
  \/ \E c \in CallIds : CacheGetReturn(c)
  \/ \E c \in CallIds, resp \in NoStoreResponses : TransportReturn(c, resp, "void", "void")
  \/ Tick(20000, NoStoreTicks, CachedLatency, 1..NoStoreCalls)
  \/ \E value \in StoreValues : CacheManagerSet("u1", value, Undefined)
  \/ CacheManagerGet("u1")
  \/ CleanupExpiredData
  \/ InvalidateByKeyContaining("u")
  \/ InvalidateAllCache

SpecNoStore == InitNoStore /\ [][NextNoStore]_vars

\* C15: without IndexedDB every get returns null and set, cleanupExpiredData,
\* invalidateByKeyContaining and invalidateAllCache complete leaving the
\* (absent) store as it is; a fetch with withCache = true is then never served
\* from the cache and never fails because of it: after the lookup it is
\* dispatched exactly as with withCache = false, it makes its own transport
\* call, resolves with that call's body and rejects only with that call's error.
C15_NoStoreNoCache ==
  ~indexedDB
  => /\ cache = EmptyMap
     /\ \A key \in Urls \cup StoreKeys : CacheGet(cache, indexedDB, key, now) = NoData
     /\ lastCall.op = "get" => lastCall.value = NoData
     /\ lastCall.removed = {}
     /\ \A c \in CallIds :
          LET rec == calls[c] IN
            /\ rec.pc \notin {"idle", "cacheGet"}
               => /\ rec.path = "immediate"
                  /\ rec.startedAt = rec.issuedAt
                  /\ rec.sent = 1
                  /\ rec.serial > 0
            /\ rec.pc = "resolved" => rec.result.serial = rec.serial
            /\ rec.pc = "rejected" => rec.error = TransportFailure(rec.serial)
            /\ rec.pc = "cacheGet" => rec.cfg.withCache

\* With withCache = true and no IndexedDB, after a direct set on the address, a
\* second fetch of the address was resolved by a transport call of its own.
C15_Witness ==
  /\ ~indexedDB
  /\ Has(setLog, "u1")
  /\ cacheOps > 0
  /\ calls[1].cfg.withCache /\ calls[2].cfg.withCache
  /\ calls[1].pc = "resolved" /\ calls[2].pc = "resolved"
  /\ calls[2].issuedAt > calls[1].issuedAt
  /\ calls[1].result.serial = 1
  /\ calls[2].result.serial = 2
  /\ transportCalls = 2

\* ---------------------------------------------------------- dispatch claims
\* Calls on one address whose per-call config sets debounceTime, throttleTime
\* and debounceTime, or neither, with and without the cache; the clock in steps
\* of 500 ms.
DispatchTicks == 2
DispatchLatency == 1

DispatchResponses == {Response(200, TRUE, TRUE)}

DispatchConfigs ==
  { [DefaultConfig EXCEPT !.withCache = w, !.cacheTTL = 60000, !.maxRetries = 1] :
      w \in BOOLEAN }

DispatchOverrides ==
  { NoOverride, [debounceTime |-> 500], [throttleTime |-> 1000, debounceTime |-> 500] }

InitDispatch == InitWith(DispatchConfigs)

NextDispatch ==
  \/ \E c \in CallIds, options \in Options, over \in DispatchOverrides :
       Fetch(c, "u1", options, over)
  \/ \E c \in CallIds : CacheGetReturn(c)
  \/ \E c \in CallIds : ThrottleWake(c)
  \/ \E c \in CallIds : DebounceFire(c)
  \/ \E c \in CallIds, resp \in DispatchResponses : TransportReturn(c, resp, "void", "void")
  \/ \E key \in unwritten : PutSuccess(key)
  \/ Tick(500, DispatchTicks, DispatchLatency, CallIds)

SpecDispatch == InitDispatch /\ [][NextDispatch]_vars

\* Call c leaves fetch in this step without being served from the cache.
Dispatched(c) ==
  /\ calls[c].pc \in {"idle", "cacheGet"}
  /\ calls'[c].pc \notin {"idle", "cacheGet"}
  /\ calls'[c].path # "cache"

UpdateConfig(over) ==
  /\ instance
  /\ config' = Merge(config, over)
  /\ requested' = NoRequest
  /\ UNCHANGED <<now, calls, lastExecutionTime, inFlightRequests, debounceTimers, timers,
                 transportCalls, indexedDB, cache, unwritten, instance, lastCall, setLog, cacheOps>>

\* Calls on a client whose config is updated between and during them: the
\* constructor argument, the updateConfig arguments and the per-call configs
\* set maxRetries, initialBackoff and debounceTime; the clock in steps of 200 ms.
ConfigTicks == 3
ConfigLatency == 1

ConstructorConfigs == { EmptyMap, [initialBackoff |-> 100, debounceTime |-> 200] }
ConfigUpdates == { [maxRetries |-> 2], [maxRetries |-> 1, initialBackoff |-> 200] }
ConfigOverrides == { NoOverride, [maxRetries |-> 1], [maxRetries |-> 2, debounceTime |-> 0] }
\* The calls made: a first and a second.
ConfigCallIds == {1, 2}

\* new ResilientHttpClient(config): { ...defaults, ...config }.
InitConfig == InitWith({ Merge(DefaultConfig, k) : k \in ConstructorConfigs })

NextConfig ==
  \/ \E c \in ConfigCallIds, options \in Options, over \in ConfigOverrides :
       Fetch(c, "u1", options, over)
  \/ \E over \in ConfigUpdates : UpdateConfig(over)
  \/ \E c \in CallIds : DebounceFire(c)
  \/ \E c \in CallIds, resp \in SchedResponses : TransportReturn(c, resp, "void", "void")
  \/ \E c \in CallIds : BackoffWake(c, NoRetryResult)
  \/ Tick(200, ConfigTicks, ConfigLatency, ConfigCallIds)

SpecConfig == InitConfig /\ [][NextConfig]_vars

\* The options of a config: every field but the url, which fetch takes from its
\* first argument.
OptionNames == DOMAIN DefaultConfig \ {"url"}
\* The options no layer of SpecConfig sets.
DefaultedNames == OptionNames \ {"maxRetries", "initialBackoff", "debounceTime"}

\* The value of option f under layer over on top of base.
Layered(base, over, f) == IF f \in DOMAIN over THEN over[f] ELSE base[f]

\* C17: the effective config of a call is fixed when the call is made: each
\* option is the per-call override if given, else the instance value, which is
\* the built-in default unless the constructor config or an earlier updateConfig
\* set it; updateConfig changes exactly the options it names in the instance
\* config and no config of a call already made; a call that ran out of retries
\* made the number of transport calls and waited the backoff times of its own
\* effective config.
C17_ConfigSnapshotPerCall ==
  [][ /\ \A c \in ConfigCallIds, options \in Options, over \in ConfigOverrides :
           Fetch(c, "u1", options, over) =>
             \A f \in OptionNames : calls'[c].cfg[f] = Layered(config, over, f)
      /\ \A c \in CallIds : calls[c].pc # "idle" => calls'[c].cfg = calls[c].cfg
      /\ \A over \in ConfigUpdates :
           UpdateConfig(over) =>
             \A f \in DOMAIN DefaultConfig : config'[f] = Layered(config, over, f)
      /\ \A f \in DefaultedNames : config'[f] = DefaultConfig[f]
      /\ \A c \in CallIds :
           /\ calls'[c].sent <= calls'[c].cfg.maxRetries
           /\ \A k \in DOMAIN calls'[c].waits :
                calls'[c].waits[k] = BackoffTime(calls'[c].cfg, k)
           /\ calls'[c].pc = "rejected" => calls'[c].sent = calls'[c].cfg.maxRetries
    ]_vars

\* Call c was made with initialBackoff = 100 and is between its two attempts,
\* having waited by its own config; an updateConfig has since set the instance's
\* initialBackoff to 200, and the later call d was made with the updated value.
C17_Witness ==
  \E c \in CallIds, d \in CallIds :
    /\ c < d
    /\ calls[c].pc = "backoff"
    /\ calls[c].cfg.initialBackoff = 100
    /\ calls[c].waits = <<200>>
    /\ config.initialBackoff = 200
    /\ calls[d].pc # "idle"
    /\ calls[d].cfg.initialBackoff = 200
    /\ calls[d].cfg.maxRetries = 2
    /\ config.maxRetries = 1

\* ------------------------------------------------- calls to different URLs
\* The README's throttle example: throttleTime = 5000 on the client, calls to
\* /data1 and /data2; the clock in steps of 1000 ms.
UrlThrottleTicks == 6

UrlThrottleConfigs == { [DefaultConfig EXCEPT !.throttleTime = 5000, !.maxRetries = 1] }
UrlThrottleCallIds == {1, 2}
DataUrls == {"data1", "data2"}

InitUrlThrottle == InitWith(UrlThrottleConfigs)

NextUrlThrottle ==
  \/ \E c \in UrlThrottleCallIds, url \in DataUrls, options \in Options :
       Fetch(c, url, options, NoOverride)
  \/ \E c \in CallIds : ThrottleWake(c)
  \/ \E c \in CallIds, resp \in SchedResponses : TransportReturn(c, resp, "void", "void")
  \/ Tick(1000, UrlThrottleTicks, UrlThrottleTicks, UrlThrottleCallIds)

SpecUrlThrottle == InitUrlThrottle /\ [][NextUrlThrottle]_vars

\* C18: with throttleTime = 5000, of two calls to different URLs issued back to
\* back the first starts its execution at once and the second starts no sooner
\* than 5000 ms after the first.
C18_SecondUrlDelayed ==
  \A c \in CallIds, d \in CallIds :
    ( /\ c < d
      /\ calls[c].pc # "idle" /\ calls[d].pc # "idle"
      /\ calls[c].cfg.throttleTime = 5000 /\ calls[d].cfg.throttleTime = 5000
      /\ calls[c].url # calls[d].url
      /\ calls[d].issuedAt = calls[c].issuedAt )
    => /\ calls[c].startedAt = calls[c].issuedAt
       /\ calls[d].startedAt = 0 \/ calls[d].startedAt >= calls[c].startedAt + 5000

\* The README's debounce example: debounceTime = 1000 on the client, calls to
\* /search?q=test1, test2 and test3; the clock in steps of 500 ms.
UrlDebounceTicks == 3
UrlDebounceLatency == 1

UrlDebounceConfigs == { [DefaultConfig EXCEPT !.debounceTime = 1000, !.maxRetries = 1] }
SearchUrls == {"test1", "test2", "test3"}

InitUrlDebounce == InitWith(UrlDebounceConfigs)

NextUrlDebounce ==
  \/ \E c \in CallIds, url \in SearchUrls, options \in Options :
       Fetch(c, url, options, NoOverride)
  \/ \E c \in CallIds : DebounceFire(c)
  \/ \E c \in CallIds, resp \in SchedResponses : TransportReturn(c, resp, "void", "void")
  \/ Tick(500, UrlDebounceTicks, UrlDebounceLatency, CallIds)

SpecUrlDebounce == InitUrlDebounce /\ [][NextUrlDebounce]_vars

\* C19: with debounceTime = 1000, of calls to different URLs issued within the
\* debounce time only the last is executed: no transport call is made for an
\* earlier one.
C19_OnlyLastUrlRequested ==
  \A c \in CallIds, d \in CallIds :
    ( /\ c < d
      /\ calls[c].pc # "idle" /\ calls[d].pc # "idle"
      /\ calls[c].cfg.debounceTime = 1000 /\ calls[d].cfg.debounceTime = 1000
      /\ calls[c].url # calls[d].url
      /\ calls[d].issuedAt - calls[c].issuedAt < 1000 )
    => calls[c].sent = 0

\* ------------------------------------------------------- the shared instance
\* ResilientHttpClient.getInstance(config): the constructor runs only when no
\* instance exists; the instance is returned either way.
GetInstance(cfg) ==
  /\ IF instance
       THEN UNCHANGED <<config, lastExecutionTime, inFlightRequests, debounceTimers>>
       ELSE /\ config' = Merge(DefaultConfig, cfg)
            /\ lastExecutionTime' = EmptyMap
            /\ inFlightRequests' = EmptyMap
            /\ debounceTimers' = EmptyMap
  /\ instance' = TRUE
  /\ requested' = [given |-> TRUE, config |-> cfg]
  /\ UNCHANGED <<now, calls, timers, transportCalls, indexedDB, cache, unwritten, lastCall, setLog,
                 cacheOps>>

\* ResilientHttpClient.resetInstance(): the instance becomes a new client built
\* without a config. The calls already made stay with the client they were made
\* on and keep their configs.
ResetInstance ==
  /\ config' = DefaultConfig
  /\ lastExecutionTime' = EmptyMap
  /\ inFlightRequests' = EmptyMap
  /\ debounceTimers' = EmptyMap
  /\ instance' = TRUE
  /\ requested' = NoRequest
  /\ UNCHANGED <<now, calls, timers, transportCalls, indexedDB, cache, unwritten, lastCall, setLog,
                 cacheOps>>

\* The module is loaded, which creates the exported httpClient by getInstance();
\* then getInstance(config), resetInstance(), updateConfig(config) and calls on
\* the instance, on the immediate path; the clock in steps of 500 ms.
InstanceTicks == 2
InstanceLatency == 1

InstanceConfigs == { EmptyMap, [maxRetries |-> 1], [maxRetries |-> 2, initialBackoff |-> 100] }
InstanceUpdates == { [maxRetries |-> 2] }
InstanceCallIds == {1, 2}

InitInstance == InitWith({ Merge(DefaultConfig, EmptyMap) })

NextInstance ==
  \/ \E cfg \in InstanceConfigs : GetInstance(cfg)
  \/ ResetInstance
  \/ \E over \in InstanceUpdates : UpdateConfig(over)
  \/ \E c \in InstanceCallIds, options \in Options : Fetch(c, "u1", options, NoOverride)
  \/ \E c \in CallIds, resp \in SchedResponses : TransportReturn(c, resp, "void", "void")
  \/ \E c \in CallIds : BackoffWake(c, NoRetryResult)
  \/ Tick(500, InstanceTicks, InstanceLatency, InstanceCallIds)

SpecInstance == InitInstance /\ [][NextInstance]_vars

\* C20: once getInstance(config) has returned, the instance config has the
\* values of config, and a fetch call made without a per-call config (before
\* any later updateConfig or resetInstance) has them in its effective config.
C20_GetInstanceConfigApplies ==
  [][ requested'.given =>
        /\ \A f \in DOMAIN requested'.config : config'[f] = requested'.config[f]
        /\ \A c \in CallIds :
             (calls[c].pc = "idle" /\ calls'[c].pc # "idle") =>
               \A f \in DOMAIN requested'.config : calls'[c].cfg[f] = requested'.config[f]
    ]_vars

\* ------------------------------------------------------ the cache-hit frame
\* The store holds an entry for the cache key of call c that has not expired.
LiveEntry(c) ==
  LET key == GenerateCacheKey(calls[c].url, calls[c].cfg.cacheKey) IN
    indexedDB /\ Has(cache, key) /\ cache[key].expiresAt > now

\* C21 (as claimed): when the lookup of a call finds an unexpired entry, the
\* call resolves with the entry's value and nothing else changes: no transport
\* call, no timer, no hook invocation, lastExecutionTime, the in-flight map and
\* the debounce-timer map as before, the store as before.
C21_HitLeavesAllElseUntouched ==
  [][ \A c \in CallIds :
        (calls[c].pc = "cacheGet" /\ calls'[c].pc # "cacheGet" /\ LiveEntry(c))
        => /\ calls'[c].pc = "resolved"
           /\ calls'[c].result =
                cache[GenerateCacheKey(calls[c].url, calls[c].cfg.cacheKey)].value
           /\ calls'[c].sent = 0
           /\ calls'[c].onRetryCalls = 0 /\ calls'[c].onHttpResponseCalls = 0
           /\ calls'[c].onSuccessCalls = 0 /\ calls'[c].onErrorCalls = 0
           /\ \A d \in CallIds \ {c} : calls'[d] = calls[d]
           /\ UNCHANGED <<transportCalls, timers, lastExecutionTime, inFlightRequests,
                          debounceTimers, cache>>
    ]_vars

\* ------------------------------------------------- scheduler map lifecycle
CallKeys == { CallKey(url, options) : url \in Urls, options \in Options }

\* A throttled execution of key has started and is not settled.
ThrottledExecuting(key) ==
  \E c \in CallIds :
    /\ calls[c].path = "throttle" /\ KeyOf(calls[c]) = key
    /\ calls[c].pc \in {"transport", "backoff"}

\* A debounce timer of key is pending, or the execution it started is not
\* settled.
DebouncePending(key) ==
  \E c \in CallIds :
    /\ calls[c].path = "debounce" /\ KeyOf(calls[c]) = key
    /\ c \in timers \/ calls[c].pc \in {"transport", "backoff"}

\* C22 (as claimed): the in-flight map has no entry for a key of which no
\* throttled execution is unsettled, and the debounce-timer map has no entry
\* for a key of which no timer is pending and no debounced execution unsettled.
C22_NoEntryOutlivesOperation ==
  \A key \in CallKeys :
    /\ ~ThrottledExecuting(key) => ~Has(inFlightRequests, key)
    /\ ~DebouncePending(key) => ~Has(debounceTimers, key)

\* --------------------------------------------- throttle wait re-validation
\* C23 (as claimed): a caller that resumes from the throttle wait and starts an
\* execution does not overwrite an in-flight entry of its key that another
\* caller registered during the wait, and does not set lastExecutionTime of its
\* key back to a time before the one recorded during the wait.
C23_WakeRevalidates ==
  [][ \A c \in CallIds :
        (calls[c].pc = "throttleWait" /\ calls'[c].pc # "throttleWait")
        => /\ ~Has(inFlightRequests, KeyOf(calls[c]))
           /\ Has(lastExecutionTime, KeyOf(calls[c])) =>
                lastExecutionTime'[KeyOf(calls[c])] >= lastExecutionTime[KeyOf(calls[c])]
    ]_vars

\* ------------------------------------------------------------ onRetry claims
\* The address and options of an attempt for which onRetry returned result.
Replaced(original, replacement) == IF replacement # "" THEN replacement ELSE original

\* C24: onRetry is not invoked for the first attempt; with onRetry configured it
\* is invoked once at the start of every retry, with the attempt number (1 for
\* the first retry, 2 for the second, ...); the transport call of a retry uses
\* the address and options onRetry returned for this retry and, for what it
\* did not return, the address and options of the fetch call, whatever the
\* attempt before used; without onRetry every attempt uses those of the call.
C24_OnRetryPerRetryOnly ==
  [][ \A c \in CallIds :
        /\ (calls[c].sent = 0 /\ calls'[c].sent = 1)
           => /\ calls'[c].onRetryCalls = 0
              /\ calls'[c].reqUrl = calls'[c].url
              /\ calls'[c].reqOptions = calls'[c].options
        /\ \A rr \in RetryResults :
             (BackoffWake(c, rr) /\ calls[c].cfg.onRetry /\ calls'[c].pc = "transport")
             => /\ calls'[c].onRetryCalls = calls[c].onRetryCalls + 1
                /\ calls'[c].retryAttempts = Append(calls[c].retryAttempts, calls[c].attempt)
                /\ calls'[c].reqUrl = Replaced(calls[c].url, rr.url)
                /\ calls'[c].reqOptions = Replaced(calls[c].options, rr.options)
        /\ (BackoffWake(c, NoRetryResult) /\ ~calls[c].cfg.onRetry /\ calls'[c].pc = "transport")
           => /\ calls'[c].reqUrl = calls[c].url
              /\ calls'[c].reqOptions = calls[c].options
        /\ calls'[c].sent = calls[c].sent
           => /\ calls'[c].onRetryCalls = calls[c].onRetryCalls
              /\ calls'[c].retryAttempts = calls[c].retryAttempts
        /\ calls'[c].onRetryCalls =
             IF calls'[c].cfg.onRetry /\ calls'[c].sent > 0 THEN calls'[c].sent - 1 ELSE 0
        /\ calls'[c].retryAttempts = [k \in 1..calls'[c].onRetryCalls |-> k]
    ]_vars

\* The third attempt of a call with onRetry: onRetry has been invoked twice, for
\* attempts 1 and 2, and this attempt goes to the call's own address with
\* replaced options.
C24_Witness ==
  \E c \in CallIds :
    /\ calls[c].cfg.onRetry
    /\ calls[c].pc = "transport"
    /\ calls[c].sent = 3
    /\ calls[c].retryAttempts = <<1, 2>>
    /\ calls[c].reqUrl = calls[c].url
    /\ calls[c].reqOptions = RetryOptions

\* ------------------------------------------------------------ the cache write
\* Calls that miss the cache and write their result: withCache = true, a store
\* is present, cacheTTL configured or not, onSuccess configured or not, the
\* cacheKey given per call or not; the clock in steps of 20000 ms.
WriteTicks == 2
WriteLatency == 1

WriteConfigs ==
  { [DefaultConfig EXCEPT !.withCache = TRUE, !.cacheTTL = ttl, !.maxRetries = 1,
                          !.onSuccess = h] : ttl \in {Undefined, 60000}, h \in BOOLEAN }
WriteOverrides == { NoOverride, [cacheKey |-> "k"] }
WriteCallIds == {1, 2}

InitWrite == InitWith(WriteConfigs)

NextWrite ==
  \/ \E c \in WriteCallIds, options \in Options, over \in WriteOverrides :
       Fetch(c, "u1", options, over)
  \/ \E c \in CallIds : CacheGetReturn(c)
  \/ \E c \in CallIds, resp \in SchedResponses :
       \E sr \in ResultsOf(calls[c].cfg.onSuccess, SuccessResults, "void") :
         TransportReturn(c, resp, sr, "void")
  \/ \E key \in unwritten : PutSuccess(key)
  \/ Tick(20000, WriteTicks, WriteLatency, WriteCallIds)

SpecWrite == InitWrite /\ [][NextWrite]_vars

\* The entry that a call resolving now with its result must leave in the store.
WrittenEntry(rec, t) ==
  [value |-> rec.result,
   expiresAt |-> t + (IF rec.cfg.cacheTTL = Undefined THEN EXPIRATION_TIME
                      ELSE rec.cfg.cacheTTL)]

\* C25 (as claimed): when a call with withCache that went to the transport
\* resolves, the store holds its result (the onSuccess replacement if one was
\* returned) under the call's cache key with expiresAt = now + cacheTTL (15
\* minutes without cacheTTL), and the write of that entry has completed.
C25_WrittenBeforeReturned ==
  [][ \A c \in CallIds :
        ( /\ calls[c].pc = "transport" /\ calls'[c].pc = "resolved"
          /\ calls[c].cfg.withCache /\ indexedDB )
        => LET key == GenerateCacheKey(calls[c].url, calls[c].cfg.cacheKey) IN
             /\ Has(cache', key)
             /\ cache'[key] = WrittenEntry(calls'[c], now)
             /\ key \notin unwritten'
    ]_vars

\* ------------------------------------------------------------------ the sweep
\* C26: cleanupExpiredData removes exactly the entries with expiresAt <= now and
\* leaves the others as they were; the entries it removes are those that get
\* reports absent, so no get gives another result after the sweep than before
\* it; get leaves the store as it was.
C26_SweepRemovesExactlyExpired ==
  [][ /\ CleanupExpiredData
         => /\ DOMAIN cache' = {k \in DOMAIN cache : cache[k].expiresAt > now}
            /\ \A k \in DOMAIN cache' : cache'[k] = cache[k]
            /\ \A k \in DOMAIN cache \ DOMAIN cache' :
                 CacheGet(cache, indexedDB, k, now) = NoData
            /\ \A k \in DOMAIN cache' : CacheGet(cache, indexedDB, k, now) = cache[k].value
            /\ \A key \in StoreKeys :
                 CacheGet(cache', indexedDB, key, now) = CacheGet(cache, indexedDB, key, now)
      /\ \A key \in StoreKeys : CacheManagerGet(key) => cache' = cache
    ]_vars

\* cleanupExpiredData has just removed the entry of "a", whose lifetime had run
\* out, and kept the entry of "ab".
C26_Witness ==
  /\ lastCall.op = "cleanupExpiredData"
  /\ lastCall.removed = {"a"}
  /\ DOMAIN cache = {"ab"}
  /\ setLog["a"].at + setLog["a"].ttl = now

\* ------------------------------------------------------------------ liveness
\* Call c is under way: waiting out the throttle delta, in the transport,
\* between two attempts, holding the promise of an execution that is in the
\* transport or between two attempts, or its debounce timer is pending.
InProgress(c) ==
  \/ calls[c].pc \in {"throttleWait", "transport", "backoff"}
  \/ calls[c].pc = "coalesced" /\ calls[calls[c].owner].pc \in {"transport", "backoff"}
  \/ c \in timers

\* The debounce timer of call c was cleared by a later call: its promise is
\* never settled.
TimerCleared(c) == calls[c].pc = "debounceWait" /\ c \notin timers

\* The clock advances by step while a call is under way, and up to ticks steps
\* after the first call while one of the calls ids is still to be made; a
\* transport call completes within latency steps.
Clock(step, ticks, latency, ids) ==
  /\ calls[1].pc # "idle"
  /\ \/ \E c \in CallIds : InProgress(c)
     \/ /\ \E c \in ids : calls[c].pc = "idle"
        /\ now + step <= Epoch + step * ticks
  /\ \A c \in CallIds :
        calls[c].pc = "transport" => now + step <= calls[c].sentAt + step * latency
  /\ \A c \in CallIds : ~TimerDue(c)
  /\ \A c \in CallIds : calls[c].pc # "cacheGet"
  /\ unwritten = {}
  /\ now' = now + step
  /\ UNCHANGED <<config, calls, lastExecutionTime, inFlightRequests, debounceTimers,
                 timers, transportCalls, indexedDB, cache, unwritten, harness>>

\* Calls on the three paths, chosen per call: immediate, throttleTime = 1000,
\* debounceTime = 500; maxRetries 0, 1 or 2 with a backoff wait of 500 ms; the
\* clock in steps of 500 ms. Every transport call completes, every timer fires
\* and the clock runs.
LiveTicks == 2
LiveLatency == 1

LiveConfigs ==
  { [DefaultConfig EXCEPT !.maxRetries = m, !.initialBackoff = 250, !.maxBackoff = 500] :
      m \in {0, 1, 2} }
LiveOverrides == { NoOverride, [throttleTime |-> 1000], [debounceTime |-> 500] }

\* The calls made: a first and a second.
LiveCallIds == {1, 2}

InitLive == InitWith(LiveConfigs)

NextLive ==
  \/ \E c \in LiveCallIds, options \in Options, over \in LiveOverrides :
       Fetch(c, "u1", options, over)
  \/ \E c \in CallIds : ThrottleWake(c)
  \/ \E c \in CallIds : DebounceFire(c)
  \/ \E c \in CallIds, resp \in SchedResponses : TransportReturn(c, resp, "void", "void")
  \/ \E c \in CallIds : BackoffWake(c, NoRetryResult)
  \/ Clock(500, LiveTicks, LiveLatency, LiveCallIds)

Completion ==
  /\ \A c \in CallIds :
       /\ WF_vars(\E resp \in SchedResponses : TransportReturn(c, resp, "void", "void"))
       /\ WF_vars(ThrottleWake(c))
       /\ WF_vars(DebounceFire(c))
       /\ WF_vars(BackoffWake(c, NoRetryResult))
  /\ WF_vars(Clock(500, LiveTicks, LiveLatency, LiveCallIds))

SpecLive == InitLive /\ [][NextLive]_vars /\ Completion

Positive(n) == IF n > 0 THEN n ELSE 0

\* C27: every call that has been made eventually settles, unless its debounce
\* timer was cleared by a later call, and then it never settles; an execution
\* makes at most maxRetries transport calls and waits at most maxRetries - 1
\* backoff times.
C27_DispatchedCallsSettle ==
  /\ \A c \in CallIds :
       (calls[c].pc # "idle") ~> (Settled(calls[c]) \/ TimerCleared(c))
  /\ [](\A c \in CallIds :
          /\ TimerCleared(c) => ~Settled(calls[c])
          /\ calls[c].sent <= Positive(calls[c].cfg.maxRetries)
          /\ Len(calls[c].waits) <= Positive(calls[c].cfg.maxRetries - 1))
  /\ [][\A c \in CallIds : TimerCleared(c) => TimerCleared(c)']_vars

\* Call d was handed the promise of the throttled execution of call c, which
\* made two transport calls with one backoff wait between them; both have
\* settled.
C27_Witness ==
  \E c \in CallIds, d \in CallIds :
    /\ calls[c].path = "throttle" /\ calls[c].sent = 2 /\ Len(calls[c].waits) = 1
    /\ calls[d].path = "throttle" /\ calls[d].owner = c
    /\ Settled(calls[c]) /\ Settled(calls[d])

\* ------------------------------------------------------- cached error bodies
\* Responses that are not ok: 403 is not in retryOnErrors and passes through
\* as a result, with a text body or an empty body; 500 is retried. withCache =
\* true, cacheTTL = 60000, a store is present; the clock in steps of 20000 ms.
ErrorBodyTicks == 3
ErrorBodyLatency == 1

ErrorBodyResponses == { Response(403, FALSE, FALSE), EmptyBody(403, FALSE), Response(500, FALSE, FALSE) }
ErrorBodyConfigs ==
  { [DefaultConfig EXCEPT !.withCache = TRUE, !.cacheTTL = 60000, !.maxRetries = 1] }
ErrorBodyCallIds == {1, 2}

InitErrorBody == InitWith(ErrorBodyConfigs)

NextErrorBody ==
  \/ \E c \in ErrorBodyCallIds, url \in Urls, options \in Options :
       Fetch(c, url, options, NoOverride)
  \/ \E c \in CallIds : CacheGetReturn(c)
  \/ \E c \in CallIds, resp \in ErrorBodyResponses : TransportReturn(c, resp, "void", "void")
  \/ \E key \in unwritten : PutSuccess(key)
  \/ Tick(20000, ErrorBodyTicks, ErrorBodyLatency, ErrorBodyCallIds)

SpecErrorBody == InitErrorBody /\ [][NextErrorBody]_vars

\* C28 (as claimed): a fetch issued less than cacheTTL after the body of a
\* response that is not ok was written for its cache key resolves with that
\* body from the cache and makes no transport call.
C28_ErrorBodyServedFromCache ==
  \A d \in CallIds :
    LET key == GenerateCacheKey(calls[d].url, calls[d].cfg.cacheKey) IN
      (WrittenBefore(d) /\ ~(setLog[key].value.body \in 200..299))
      => /\ calls[d].path = "cache"
         /\ calls[d].pc = "resolved"
         /\ calls[d].result = setLog[key].value
         /\ calls[d].sent = 0

\* ------------------------------------------------------- no attempts allowed
\* Calls with maxRetries -1, 0 or 1 on the three paths, chosen per call, with
\* and without hooks; the clock in steps of 500 ms.
NoAttemptTicks == 2
NoAttemptLatency == 1

NoAttemptConfigs ==
  { [DefaultConfig EXCEPT !.maxRetries = m, !.onRetry = h[1], !.onHttpResponse = h[2],
                          !.onSuccess = h[3], !.onError = h[4]] :
      m \in {-1, 0, 1}, h \in HookSets }
NoAttemptCallIds == {1, 2}

InitNoAttempt == InitWith(NoAttemptConfigs)

NextNoAttempt ==
  \/ \E c \in NoAttemptCallIds, options \in Options, over \in LiveOverrides :
       Fetch(c, "u1", options, over)
  \/ \E c \in CallIds : ThrottleWake(c)
  \/ \E c \in CallIds : DebounceFire(c)
  \/ \E c \in CallIds, resp \in SchedResponses :
       \E sr \in ResultsOf(calls[c].cfg.onSuccess, SuccessResults, "void"),
          er \in ResultsOf(calls[c].cfg.onError, ErrorResults, "void") :
         TransportReturn(c, resp, sr, er)
  \/ Tick(500, NoAttemptTicks, NoAttemptLatency, NoAttemptCallIds)

SpecNoAttempt == InitNoAttempt /\ [][NextNoAttempt]_vars

\* The executor of call c has been entered.
Executed(c) ==
  calls[c].pc \in {"transport", "backoff", "resolved", "rejected"} /\ calls[c].path # "cache"

NoHookCalls(rec) ==
  /\ rec.onRetryCalls = 0 /\ rec.onHttpResponseCalls = 0
  /\ rec.onSuccessCalls = 0 /\ rec.onErrorCalls = 0

\* C29: an execution with maxRetries <= 0 has made no transport call, invoked
\* no hook and waited no backoff, and is rejected with "Max retries exceeded" as
\* soon as it is entered; a call is rejected with that error only if its
\* maxRetries <= 0.
C29_NoAttemptWithoutRetries ==
  \A c \in CallIds :
    /\ calls[c].cfg.maxRetries <= 0
       => /\ calls[c].sent = 0
          /\ NoHookCalls(calls[c])
          /\ calls[c].waits = <<>>
          /\ Executed(c) => calls[c].pc = "rejected" /\ calls[c].error = MaxRetriesError
    /\ calls[c].error = MaxRetriesError
       => calls[c].pc = "rejected" /\ calls[c].cfg.maxRetries <= 0

\* Two calls with maxRetries = 0 and every hook configured, one throttled and
\* one debounced, are rejected with "Max retries exceeded"; the transport was
\* never called.
C29_Witness ==
  \E c \in CallIds, d \in CallIds :
    /\ calls[c].path = "throttle" /\ calls[d].path = "debounce"
    /\ calls[c].cfg.maxRetries = 0 /\ calls[d].cfg.maxRetries = 0
    /\ calls[c].cfg.onError /\ calls[c].cfg.onRetry
    /\ calls[c].error = MaxRetriesError /\ calls[d].error = MaxRetriesError
    /\ transportCalls = 0

====
